---- MODULE Spec2Model ----
(***************************************************************************)
(* A model of setup_workspace.py, the VS Code Python workspace setup       *)
(* script: one run of main() is the sequence of steps                      *)
(*   resolve repository -> ensure_secrets -> copy_initial_conditions ->    *)
(*   ensure_gitignore -> create_venv_and_install -> write_vscode ->        *)
(*   write_secure_launchers                                                *)
(* over the files of the working repository.  External commands (git,      *)
(* venv, pip) and the portable-interpreter download can fail; a failure    *)
(* ends the run.                                                           *)
(***************************************************************************)
EXTENDS Integers, Sequences, FiniteSets, TLC

\* ------------------------------------------------------------------ bounds
\* Number of runs of main() a behaviour may contain.
MaxRuns == 2
\* Largest number of ancestors the current working directory may have.
MaxDepth == 7
\* Largest number of lines of requirements.txt.
MaxReqLines == 1

\* ------------------------------------------------------- program constants
\* detect_repo_root: for _ in range(6)
WalkLimit == 6

\* ------------------------------------------------------------ text helpers
\* Text is a sequence of one-character strings.
UpperCase == <<"A","B","C","D","E","F","G","H","I","J","K","L","M",
               "N","O","P","Q","R","S","T","U","V","W","X","Y","Z">>
LowerCase == <<"a","b","c","d","e","f","g","h","i","j","k","l","m",
               "n","o","p","q","r","s","t","u","v","w","x","y","z">>

\* str.lower() on one character.
LowerChar(c) ==
  IF \E i \in 1..26 : UpperCase[i] = c
  THEN LowerCase[CHOOSE i \in 1..26 : UpperCase[i] = c]
  ELSE c

\* str.lower()
Lower(s) == [i \in 1..Len(s) |-> LowerChar(s[i])]

\* str.replace(a, b) for one-character a and b.
ReplaceChar(s, a, b) == [i \in 1..Len(s) |-> IF s[i] = a THEN b ELSE s[i]]

IsSpace(c) == c \in {" ", "\t"}

\* str.strip(): leading and trailing whitespace removed.
Strip(s) ==
  LET idx == {i \in 1..Len(s) : ~IsSpace(s[i])}
  IN  IF idx = {} THEN <<>>
      ELSE LET lo == CHOOSE i \in idx : \A j \in idx : i <= j
               hi == CHOOSE i \in idx : \A j \in idx : j <= i
           IN  SubSeq(s, lo, hi)

\* str.startswith(p)
StartsWith(s, p) == Len(s) >= Len(p) /\ SubSeq(s, 1, Len(p)) = p

\* s.split(sep, 1)[0]: the text before the first occurrence of sep, all of s
\* when sep does not occur.
SplitFirst(s, sep) ==
  LET hits == {i \in 1..(Len(s) - Len(sep) + 1) : SubSeq(s, i, i + Len(sep) - 1) = sep}
  IN  IF hits = {} THEN s
      ELSE SubSeq(s, 1, (CHOOSE i \in hits : \A j \in hits : i <= j) - 1)

\* ------------------------------------------------- requirements.txt parsing
numpy        == <<"n","u","m","p","y">>
pandas       == <<"p","a","n","d","a","s">>
scipy        == <<"s","c","i","p","y">>
matplotlib   == <<"m","a","t","p","l","o","t","l","i","b">>
scikit_learn == <<"s","c","i","k","i","t","-","l","e","a","r","n">>
torch        == <<"t","o","r","c","h">>
tensorflow   == <<"t","e","n","s","o","r","f","l","o","w">>

HEAVY_PKGS == {numpy, pandas, scipy, matplotlib, scikit_learn, torch, tensorflow}

\* A line counted as heavy when its extracted name merely begins with a heavy
\* name.
HeavyAsPrefix(line) ==
  LET x == SplitFirst(line, <<";">>)
      name == Lower(Strip(SplitFirst(SplitFirst(SplitFirst(SplitFirst(SplitFirst(
                SplitFirst(x, <<"=","=">>), <<">","=">>), <<"<","=">>),
                <<"!","=">>), <<"~","=">>), <<"[">>)))
  IN  \E h \in HEAVY_PKGS : StartsWith(ReplaceChar(name, "_", "-"), h)

\* One kept line of the loop: the text before ";", cut at the first "==",
\* ">=", "<=", "!=", "~=" and "[" in that order, stripped, lower-cased, "_"
\* replaced by "-", and looked up in HEAVY_PKGS.
LineIsHeavy(line) ==
  LET x == SplitFirst(line, <<";">>)
      name == Lower(Strip(SplitFirst(SplitFirst(SplitFirst(SplitFirst(SplitFirst(
                SplitFirst(x, <<"=","=">>), <<">","=">>), <<"<","=">>),
                <<"!","=">>), <<"~","=">>), <<"[">>)))
      base == ReplaceChar(name, "_", "-")
  IN  base \in HEAVY_PKGS

\* The lines the code keeps: stripped, non-empty, not starting with "#".
KeptLines(lines) ==
  LET stripped == [i \in 1..Len(lines) |-> Strip(lines[i])]
  IN  SelectSeq(stripped, LAMBDA l : l # <<>> /\ ~StartsWith(l, <<"#">>))

\* parse_requirements_for_heavy: req is [kind, lines], kind one of "absent"
\* (no file), "unreadable" (read_text raises) and "text".
parse_requirements_for_heavy(req) ==
  IF req.kind = "absent" THEN FALSE
  ELSE IF req.kind = "unreadable" THEN FALSE
  ELSE \E i \in 1..Len(KeptLines(req.lines)) : LineIsHeavy(KeptLines(req.lines)[i])

\* ------------------------------------------------------------ JSON helpers
\* A JSON file is [kind, fmt, members]: kind is "absent", "unparseable",
\* "array" (valid JSON whose top level is no object) or "object"; members is
\* the sequence of <<key, value>> pairs of an object in file order; fmt tells
\* the layout of the text ("indent2" is what json.dumps(x, indent=2) writes).
NoFile == [kind |-> "absent", fmt |-> "none", members |-> <<>>]

Keys(obj) == {obj[i][1] : i \in 1..Len(obj)}

\* The value of key k in a parsed object: the last pair wins.
Get(obj, k) ==
  LET idx == {i \in 1..Len(obj) : obj[i][1] = k}
  IN  obj[CHOOSE i \in idx : \A j \in idx : j <= i][2]

\* json.loads of an object's text: a dict keeps a repeated key at its first
\* position, with its last value.
JsonLoads(members) ==
  LET first == SelectSeq([i \in 1..Len(members) |-> <<i, members[i]>>],
                         LAMBDA p : \A j \in 1..(p[1] - 1) : members[j][1] # p[2][1])
  IN  [i \in 1..Len(first) |-> <<first[i][2][1], Get(members, first[i][2][1])>>]

\* json.dumps(obj, indent=2) written to the file.
JsonDumps(obj) == [kind |-> "object", fmt |-> "indent2", members |-> obj]

\* {**a, **b} with the pairs of b appended without looking at the keys of a.
DictAppend(a, b) == a \o b

\* {**a, **b}: the keys of a in order, each with b's value when b has the
\* key, then the keys of b that a lacks, in b's order.
DictMerge(a, b) ==
  [i \in 1..Len(a) |-> IF a[i][1] \in Keys(b) THEN <<a[i][1], Get(b, a[i][1])>> ELSE a[i]]
  \o SelectSeq(b, LAMBDA p : p[1] \notin Keys(a))

\* --------------------------------------------------------- detect_repo_root
\* Directories are numbered upwards from the current working directory:
\* level 0 is the cwd, level k its k-th ancestor, level depth the filesystem
\* root.  dirs is the set of levels that hold a .git directory.
NoLevel == -1

RECURSIVE Walk(_, _, _, _)
Walk(i, p, depth, dirs) ==
  IF i >= WalkLimit THEN NoLevel
  ELSE IF p \in dirs THEN p
  ELSE IF p = depth THEN NoLevel
  ELSE Walk(i + 1, p + 1, depth, dirs)

\* The walk with no limit on the number of directories visited.
WalkUnbounded(depth, dirs) ==
  IF dirs = {} THEN NoLevel ELSE CHOOSE p \in dirs : \A q \in dirs : p <= q

detect_repo_root(depth, dirs) == Walk(0, 0, depth, dirs)

\* ------------------------------------------------------------ .gitignore
\* The lines ensure_gitignore asks for.
GitignoreLines == {".venv/", ".pythonrt/", "secrets.toml", "__pycache__/", ".vscode/*.log"}

\* All lines of the model in the order sorted() gives them (code points).
GitignoreOrder == <<"*.pyc", ".pythonrt/", ".venv/", ".vscode/*.log",
                    "__pycache__/", "node_modules/", "secrets.toml">>

\* line.strip() on the lines of the model.
StripLine(l) ==
  CASE l = "  .venv/ " -> ".venv/"
    [] l = "node_modules/  " -> "node_modules/"
    [] l = "   " -> ""
    [] OTHER -> l

\* The file is [exists, lines, eol]: eol tells whether the text ends with a
\* newline.
NoGitignore == [exists |-> FALSE, lines |-> <<>>, eol |-> FALSE]

\* The text ensure_gitignore writes over the file gi.
GitignoreWritten(gi) ==
  LET existing == IF gi.exists THEN {StripLine(gi.lines[i]) : i \in 1..Len(gi.lines)} ELSE {}
      new == existing \cup GitignoreLines
  IN  [exists |-> TRUE,
       lines |-> SelectSeq(GitignoreOrder, LAMBDA l : l \in new /\ l # ""),
       eol |-> TRUE]

\* ------------------------------------------------------------ .vscode files
\* python_in_venv relative to the repository root, as settings.json names it.
python_in_venv(windows) ==
  IF windows THEN "${workspaceFolder}\\.venv\\Scripts\\python.exe"
  ELSE "${workspaceFolder}/.venv/bin/python"

term_env_windows == "{VIRTUAL_ENV:${workspaceFolder}\\.venv,PATH:${workspaceFolder}\\.venv\\Scripts;${env:PATH}}"
term_env_unix == "{VIRTUAL_ENV:${workspaceFolder}/.venv,PATH:${workspaceFolder}/.venv/bin:${env:PATH}}"

\* The settings dict of write_vscode, in the order the code builds it.
\* Values are the JSON text of the value.
settings(windows) == <<
  <<"github.copilot.enable", "{*:false,plaintext:false,markdown:false,scminput:false}">>,
  <<"github.copilot.nextEditSuggestions.enabled", "false">>,
  <<"editor.inlineSuggest.edits.allowCodeShifting", "never">>,
  <<"github.copilot.inlineSuggest.enable", "false">>,
  <<"chat.commandCenter.enabled", "false">>,
  <<"chat.agent.enabled", "false">>,
  <<"chat.mcp.enabled", "false">>,
  <<"github.copilot.chat.enable", "false">>,
  <<"github.copilot.chat.codesearch.enabled", "false">>,
  <<"github.copilot.chat.editor.temporalContext.enabled", "false">>,
  <<"github.copilot.chat.edits.suggestRelatedFilesFromGitHistory", "false">>,
  <<"github.copilot.chat.newWorkspaceCreation.enabled", "false">>,
  <<"github.copilot.chat.startDebugging.enabled", "false">>,
  <<"github.copilot.chat.copilotDebugCommand.enabled", "false">>,
  <<"github.copilot.chat.generateTests.codeLens", "false">>,
  <<"github.copilot.chat.setupTests.enabled", "false">>,
  <<"github.copilot.chat.codeGeneration.useInstructionFiles", "false">>,
  <<"chat.promptFiles", "false">>,
  <<"chat.modeFilesLocations", "{}">>,
  <<"workbench.settings.showAISearchToggle", "false">>,
  <<"search.searchView.semanticSearchBehavior", "manual">>,
  <<"python.defaultInterpreterPath", python_in_venv(windows)>>,
  <<"python.terminal.activateEnvironment", "true">>,
  <<"terminal.integrated.env.windows", term_env_windows>>,
  <<"terminal.integrated.env.osx", term_env_unix>>,
  <<"terminal.integrated.env.linux", term_env_unix>> >>

\* The launch dict of write_vscode.
launch == <<
  <<"version", "0.2.0">>,
  <<"configurations", "[{name:Python: Current File,type:python,request:launch,program:${file},console:integratedTerminal,justMyCode:true,env:{VIRTUAL_ENV:${workspaceFolder}/.venv}}]">> >>

\* The payload of write_extensions_json; values are lists of extension ids.
payload == <<
  <<"recommendations", <<"ms-python.python">> >>,
  <<"unwantedRecommendations", <<"GitHub.copilot", "GitHub.copilot-chat">> >> >>

\* All extension ids of the model in the order sorted() gives them.
ExtensionOrder == <<"GitHub.copilot", "GitHub.copilot-chat", "esbenp.prettier-vscode", "ms-python.python">>

Range(s) == {s[i] : i \in 1..Len(s)}

\* existing.get(key, [])
GetList(obj, k) == IF k \in Keys(obj) THEN Get(obj, k) ELSE <<>>

\* sorted(set(existing.get(key, [])) | set(payload[key]))
MergedList(existing, k) ==
  SelectSeq(ExtensionOrder, LAMBDA x : x \in Range(GetList(existing, k)) \cup Range(Get(payload, k)))

\* The dict write_extensions_json writes: its two keys and nothing else.
merged_extensions(existing) == <<
  <<"recommendations", MergedList(existing, "recommendations")>>,
  <<"unwantedRecommendations", MergedList(existing, "unwantedRecommendations")>> >>

\* The dict a try/except around json.loads yields for a file that exists:
\* {} when the text does not parse.
LoadOrEmpty(file) == IF file.kind = "unparseable" THEN <<>> ELSE JsonLoads(file.members)


\* ------------------------------------------------- interpreter selection
\* Versions are tuples of numbers: <<3, 11>> is "3.11".
Versions == {<<3, 10>>, <<3, 11>>, <<3, 12>>}

PreferredHeavy == <<3, 11>>

\* --python: kind "none" (not given), "version" (a text starting with "3."),
\* "name" (an executable name such as python3.10) or "path"; ver is the
\* version the text names.
NoPython == [kind |-> "none", ver |-> <<>>]

\* The interpreter chosen to create the venv: how is "none", "spec" (the
\* --python text exists as a path or is found on PATH), "which"
\* (python<ver> found on PATH) or "py" (the Windows launcher accepts -<ver>).
NoInterpreter == [how |-> "none", ver |-> <<>>]

\* target_ver of create_venv_and_install.
TargetVer(spec, heavy, host) ==
  IF spec.kind = "version" THEN spec.ver
  ELSE IF heavy THEN PreferredHeavy
  ELSE host

\* chosen_path after the --python block: a file named as a version is an
\* executable of no known version.
ChosenBySpec(spec, e) ==
  IF spec.kind # "none" /\ e.specFound
  THEN [how |-> "spec", ver |-> IF spec.kind = "version" THEN <<>> ELSE spec.ver]
  ELSE NoInterpreter

\* chosen_path after the lookup of an installed interpreter for target.
ChosenPath(spec, target, e) ==
  IF ChosenBySpec(spec, e).how # "none" THEN ChosenBySpec(spec, e)
  ELSE IF target \in e.installed
       THEN [how |-> IF e.windows THEN "py" ELSE "which", ver |-> target]
       ELSE NoInterpreter

\* ensure_portable_python: ".".join(version.split(".")[:2])
MajorMinor(version) == SubSeq(version, 1, 2)

\* The version create_venv_and_install asks ensure_portable_python for.
PortableVersion(target) == target \o <<9>>

\* A download made whether or not an extracted interpreter is already there.
DownloadAlways(cand) == TRUE

\* ensure_portable_python downloads unless the candidate executable exists.
NeedsDownload(cand) == ~cand

\* --------------------------------------------------------------- the state
VARIABLES
  args,        \* the command line: [repo, python]
  env,         \* the machine: [windows, hostVer, installed, specFound, gitAvail, cwdDepth, gitDirs]
  dest,        \* the clone destination: "absent", "empty" or "nonempty"
  fs,          \* the files of the working repository
  pc,          \* the step main() is at
  status,      \* how the run ended, "running" until then
  repoRoot,    \* repo_root: [kind, level], kind "none", "dest" or "cwd"
  venvInfo,    \* locals of create_venv_and_install: [target, lookup, chosen, portable]
  ran,         \* the external commands and downloads of this run, in order
  out,         \* the messages printed in this run
  run,         \* the number of the run
  snap,        \* the files as the first run left them
  failed       \* what has failed so far, in any run: [subprocess, fetch, at],
               \* at the first command whose exit status was non-zero

vars == <<args, env, dest, fs, pc, status, repoRoot, venvInfo, ran, out, run, snap, failed>>

NoRoot == [kind |-> "none", level |-> 0]
NoVenvInfo == [target |-> <<>>, lookup |-> <<>>, chosen |-> NoInterpreter, portable |-> <<>>]
NoVenv == [how |-> "none", ver |-> <<>>]
NoLauncher == [kind |-> "absent", root |-> NoRoot]

\* ------------------------------------------------------------- the inputs
\* requirements.txt lines: a name, then what may follow it.
ReqNames == { numpy,
              <<"S","c","i","k","i","t","_","L","e","a","r","n">>,
              <<"t","o","r","c","h","v","i","s","i","o","n">>,
              <<"r","e","q","u","e","s","t","s">> }

ReqSuffixes == { <<>>,
                 <<"=","=","1">>, <<">","=","1">>, <<"~","=","1">>,
                 <<"<","=","1">>, <<"!","=","1">>,
                 <<"<","2">>, <<">","1">>,
                 <<"[","x","]">>, <<";","m">>,
                 <<" ","=","=","1">> }

ReqLines == {n \o x : n \in ReqNames, x \in ReqSuffixes}
            \cup { <<" ">> \o numpy, <<"#">> \o numpy, <<>> }

RECURSIVE SeqsUpTo(_, _)
SeqsUpTo(S, n) ==
  IF n = 0 THEN {<<>>}
  ELSE SeqsUpTo(S, n - 1) \cup {Append(q, x) : q \in {r \in SeqsUpTo(S, n - 1) : Len(r) = n - 1}, x \in S}

NoReq == [kind |-> "absent", lines |-> <<>>]
ReqText(lines) == [kind |-> "text", lines |-> lines]
ReqFiles == {NoReq, [kind |-> "unreadable", lines |-> <<>>]}
            \cup {ReqText(l) : l \in SeqsUpTo(ReqLines, MaxReqLines)}
FewReqFiles == {NoReq, [kind |-> "unreadable", lines |-> <<>>],
                ReqText(<<numpy \o <<"=","=","1">> >>),
                ReqText(<<<<"r","e","q","u","e","s","t","s">> >>)}

SettingsFiles == {
  NoFile,
  [kind |-> "unparseable", fmt |-> "other", members |-> <<>>],
  [kind |-> "array", fmt |-> "other", members |-> <<>>],
  [kind |-> "object", fmt |-> "other", members |-> <<>>],
  [kind |-> "object", fmt |-> "indent2", members |-> <<
     <<"editor.fontSize", "14">> >>],
  [kind |-> "object", fmt |-> "indent2", members |-> <<
     <<"chat.agent.enabled", "true">>, <<"editor.fontSize", "14">>,
     <<"python.defaultInterpreterPath", "/usr/bin/python3">> >>],
  [kind |-> "object", fmt |-> "other", members |-> <<
     <<"files.autoSave", "afterDelay">>, <<"github.copilot.enable", "{*:true}">>,
     <<"files.autoSave", "off">> >>] }

LaunchFiles == {
  NoFile,
  [kind |-> "unparseable", fmt |-> "other", members |-> <<>>],
  [kind |-> "object", fmt |-> "indent2", members |-> <<
     <<"version", "0.2.0">>, <<"configurations", "[{name:Run server}]">>,
     <<"compounds", "[]">> >>] }

ExtensionsFiles == {
  NoFile,
  [kind |-> "unparseable", fmt |-> "other", members |-> <<>>],
  [kind |-> "array", fmt |-> "other", members |-> <<>>],
  [kind |-> "object", fmt |-> "indent2", members |-> <<
     <<"recommendations", <<"ms-python.python", "esbenp.prettier-vscode", "ms-python.python">> >>,
     <<"customNote", <<"keep me">> >> >>],
  [kind |-> "object", fmt |-> "other", members |-> <<
     <<"unwantedRecommendations", <<"esbenp.prettier-vscode">> >>,
     <<"recommendations", <<"GitHub.copilot">> >> >>] }

GitignoreFiles == {
  NoGitignore,
  [exists |-> TRUE, lines |-> <<>>, eol |-> FALSE],
  [exists |-> TRUE, lines |-> <<"node_modules/  ", "*.pyc">>, eol |-> FALSE],
  [exists |-> TRUE, lines |-> <<".venv/", "   ", "  .venv/ ", "", "secrets.toml">>, eol |-> TRUE] }

\* A repository with none of the managed files.
FreshFs ==
  [secrets |-> "absent", icDefault |-> "absent", ic |-> "absent",
   gitignore |-> NoGitignore, req |-> NoReq, venv |-> NoVenv, pythonrt |-> {},
   settings |-> NoFile, launch |-> NoFile, extensions |-> NoFile,
   sh |-> NoLauncher, ps1 |-> NoLauncher]

\* A repository with a manifest and a default configuration file.
BaseFs ==
  [FreshFs EXCEPT !.icDefault = "defaults", !.req = ReqText(<<numpy \o <<"=","=","1">> >>)]

\* What a fresh clone may bring.
ClonedFs == {FreshFs, BaseFs}

\* ---------------------------------------------------------------- Init
\* Every specification starts a first run at the top of main().
InitControl ==
  /\ pc = "start"
  /\ status = "running"
  /\ repoRoot = NoRoot
  /\ venvInfo = NoVenvInfo
  /\ ran = <<>>
  /\ out = {}
  /\ run = 1
  /\ snap = FreshFs
  /\ failed = [subprocess |-> FALSE, fetch |-> FALSE, at |-> "none"]

\* A machine with git, the host interpreter on PATH, the cwd a repository.
BaseEnv ==
  [windows |-> FALSE, hostVer |-> <<3, 12>>, installed |-> {<<3, 12>>},
   specFound |-> FALSE, gitAvail |-> TRUE, cwdDepth |-> 2, gitDirs |-> {0}]

\* Before a clone the destination holds none of the files.
DestHolds(d, f) == d = "nonempty" \/ f = FreshFs

\* ------------------------------------------------------------ shell helpers
\* A command whose exit status is never looked at.
RunUnchecked(check, nonzero) == FALSE

\* run(cmd, check): subprocess.run raises CalledProcessError when check is
\* set and the command exits with a non-zero status.
RunRaises(check, nonzero) == check /\ nonzero

\* ------------------------------------------------------ resolve repository
\* A destination never taken as occupied.
NeverSkipsClone(d) == FALSE

\* dest_dir.exists() and any(dest_dir.iterdir())
SkipsClone(d) == d = "nonempty"

\* main() with --repo: clone_repo.  have_git() first; a destination that
\* exists and is not empty is kept and returned; otherwise git clone runs,
\* and a failing clone raises CalledProcessError.
CloneRepo ==
  /\ pc = "start"
  /\ args.repo
  /\ UNCHANGED <<args, env, venvInfo, run, snap>>
  /\ IF ~env.gitAvail
     THEN /\ pc' = "halt"
          /\ status' = "exit: git not found"
          /\ out' = out \cup {"git not found"}
          /\ ran' = Append(ran, "git --version")
          /\ UNCHANGED <<dest, fs, repoRoot, failed>>
     ELSE IF SkipsClone(dest)
     THEN /\ pc' = "secrets"
          /\ repoRoot' = [kind |-> "dest", level |-> 0]
          /\ out' = out \cup {"skipping clone", "working in repo"}
          /\ ran' = Append(ran, "git --version")
          /\ UNCHANGED <<dest, fs, status, failed>>
     ELSE \E ok \in BOOLEAN, content \in ClonedFs :
          /\ ran' = ran \o <<"git --version", "git clone">>
          /\ failed' = IF ok THEN failed
                        ELSE [failed EXCEPT !.subprocess = TRUE,
                                            !.at = IF @ = "none" THEN "git clone" ELSE @]
          /\ IF ~RunRaises(TRUE, ~ok)
             THEN /\ pc' = "secrets"
                  /\ dest' = IF ok THEN "nonempty" ELSE dest
                  /\ fs' = IF ok THEN content ELSE fs
                  /\ repoRoot' = [kind |-> "dest", level |-> 0]
                  /\ out' = out \cup {"working in repo"}
                  /\ UNCHANGED status
             ELSE /\ pc' = "halt"
                  /\ status' = "CalledProcessError"
                  /\ UNCHANGED <<dest, fs, repoRoot, out>>

\* main() without --repo: detect_repo_root(Path.cwd()), and the fatal exit
\* when it finds nothing.
DetectRepoRoot ==
  /\ pc = "start"
  /\ ~args.repo
  /\ UNCHANGED <<args, env, dest, fs, venvInfo, ran, run, snap, failed>>
  /\ LET found == detect_repo_root(env.cwdDepth, env.gitDirs)
     IN  IF found = NoLevel
         THEN /\ pc' = "halt"
              /\ status' = "exit: not inside a Git repository"
              /\ out' = out \cup {"not inside a Git repository"}
              /\ UNCHANGED repoRoot
         ELSE /\ pc' = "secrets"
              /\ repoRoot' = [kind |-> "cwd", level |-> found]
              /\ out' = out \cup {"working in repo"}
              /\ UNCHANGED status

\* ------------------------------------------------------------ initial files
\* secrets.toml emptied whether or not it exists.
SecretsTruncated(secrets) == "empty"

\* secrets.toml after ensure_secrets.
SecretsWritten(secrets) == IF secrets = "absent" THEN "empty" ELSE secrets

EnsureSecrets ==
  /\ pc = "secrets"
  /\ fs' = [fs EXCEPT !.secrets = SecretsWritten(@)]
  /\ out' = out \cup {IF fs.secrets = "absent" THEN "created secrets.toml"
                      ELSE "secrets.toml already exists"}
  /\ pc' = "copy"
  /\ UNCHANGED <<args, env, dest, status, repoRoot, venvInfo, ran, run, snap, failed>>

\* initial_conditions.yaml after copy_initial_conditions.
InitialConditionsWritten(src, dst) ==
  IF src # "absent" /\ dst = "absent" THEN src ELSE dst

CopyInitialConditions ==
  /\ pc = "copy"
  /\ fs' = [fs EXCEPT !.ic = InitialConditionsWritten(fs.icDefault, @)]
  /\ out' = out \cup {IF fs.icDefault = "absent" THEN "default not found; skipping copy"
                      ELSE IF fs.ic = "absent" THEN "copied default"
                      ELSE "initial_conditions.yaml already exists"}
  /\ pc' = "gitignore"
  /\ UNCHANGED <<args, env, dest, status, repoRoot, venvInfo, ran, run, snap, failed>>

EnsureGitignore ==
  /\ pc = "gitignore"
  /\ fs' = [fs EXCEPT !.gitignore = GitignoreWritten(@)]
  /\ out' = out \cup {"ensured .gitignore"}
  /\ pc' = "venv"
  /\ UNCHANGED <<args, env, dest, status, repoRoot, venvInfo, ran, run, snap, failed>>


\* --------------------------------------------------------- venv + install
VenvExists(f) == f.venv.how # "none"

Maybe(c, x) == IF c THEN <<x>> ELSE <<>>

\* What the outside world can do to a run of create_venv_and_install: the
\* first step that fails ends the run, so one fault names the outcome.  A
\* fault of a step the run does not reach changes nothing.
Faults == {"none", "download", "corrupt archive", "no executable",
           "venv", "venv partial", "pip upgrade", "pip install"}

\* create_venv_and_install.  fault is the outcome of the outside world:
\* the download fails, the archive does not extract, the extraction gives no
\* executable, the venv command fails (leaving no .venv or a partial one),
\* the pip toolchain upgrade fails, pip install -r fails, or nothing fails.
CreateVenvAndInstall ==
  /\ pc = "venv"
  /\ UNCHANGED <<args, env, dest, repoRoot, run, snap>>
  /\ \E heavy \in {parse_requirements_for_heavy(fs.req)}, fault \in Faults :
     LET target == TargetVer(args.python, heavy, env.hostVer)
         bySpec == ChosenBySpec(args.python, env)
         chosen == ChosenPath(args.python, target, env)
         probe == bySpec.how = "none" /\ env.windows
         create == ~VenvExists(fs)
         portable == create /\ chosen.how = "none"
         version == PortableVersion(target)
         cand == MajorMinor(version) \in fs.pythonrt
         download == portable /\ NeedsDownload(cand)
         extract == download /\ fault # "download"
         fetched == extract /\ fault \notin {"corrupt archive", "no executable"}
         haveExe == IF download THEN fetched ELSE cand
         venvCmd == create /\ (chosen.how # "none" \/ haveExe)
         venvFails == fault \in {"venv", "venv partial"}
         venvOk == ~venvFails
         venvRaises == RunRaises(TRUE, venvFails)
         venvThere == ~create \/ (venvCmd /\ ~venvRaises)
         reqExists == fs.req.kind # "absent"
         upgrade == venvThere /\ reqExists
         upgradeFails == upgrade /\ fault = "pip upgrade"
         install == upgrade /\ ~RunRaises(TRUE, upgradeFails)
         installFails == install /\ fault = "pip install"
         success == venvThere /\ (~reqExists \/ (install /\ ~RunRaises(TRUE, installFails)))
         firstFailed == IF venvCmd /\ venvFails THEN "venv"
                        ELSE IF upgradeFails THEN "pip upgrade"
                        ELSE IF installFails THEN "pip install"
                        ELSE "none"
         creator == IF chosen.how # "none" THEN chosen
                    ELSE [how |-> "portable", ver |-> MajorMinor(version)]
     IN  /\ venvInfo' = [target |-> target, chosen |-> chosen,
                         lookup |-> IF bySpec.how = "none" THEN target ELSE <<>>,
                         portable |-> IF portable THEN version ELSE <<>>]
         /\ fs' = [fs EXCEPT
                     !.pythonrt = IF fetched THEN @ \cup {MajorMinor(version)} ELSE @,
                     !.venv = IF venvCmd /\ venvOk THEN creator
                              ELSE IF venvCmd /\ fault = "venv partial"
                                   THEN [how |-> "partial", ver |-> creator.ver]
                              ELSE @]
         /\ ran' = ran \o Maybe(probe, "py -V") \o Maybe(download, "download")
                       \o Maybe(extract, "extract") \o Maybe(venvCmd, "venv")
                       \o Maybe(upgrade, "pip upgrade") \o Maybe(install, "pip install")
         /\ out' = out \cup (IF bySpec.how # "none" THEN {"--python specified"} ELSE {})
                       \cup (IF portable THEN {"fetching a portable runtime"} ELSE {})
                       \cup (IF venvCmd /\ ~venvRaises THEN {"created virtual environment"} ELSE {})
                       \cup (IF ~create THEN {"virtual environment already exists"} ELSE {})
                       \cup (IF venvThere /\ ~reqExists THEN {"no requirements.txt"} ELSE {})
                       \cup (IF success /\ reqExists THEN {"installed requirements"} ELSE {})
         /\ failed' = [subprocess |-> failed.subprocess \/ firstFailed # "none",
                       fetch |-> failed.fetch \/ (download /\ ~fetched),
                       at |-> IF failed.at = "none" THEN firstFailed ELSE failed.at]
         /\ pc' = IF success THEN "vscode" ELSE "halt"
         /\ status' = IF success THEN status
                      ELSE IF download /\ ~extract THEN "URLError"
                      ELSE IF extract /\ fault = "corrupt archive" THEN "TarError"
                      ELSE IF extract /\ fault = "no executable" THEN "RuntimeError"
                      ELSE "CalledProcessError"

\* --------------------------------------------------------- VS Code config
\* {**existing, **settings} raises TypeError when the parsed text is no
\* object; existing.get raises AttributeError likewise.
IsMapping(file) == file.kind # "array"

\* settings.json replaced by the computed settings alone.
SettingsOverwritten(file, windows) == JsonDumps(settings(windows))

\* settings.json merged by appending the computed pairs to the old text.
SettingsAppended(file, windows) ==
  IF file.kind = "absent" THEN JsonDumps(settings(windows))
  ELSE JsonDumps(DictAppend(file.members, settings(windows)))

\* settings.json as write_vscode writes it (for a file that is a mapping).
SettingsWritten(file, windows) ==
  IF file.kind = "absent" THEN JsonDumps(settings(windows))
  ELSE JsonDumps(DictMerge(LoadOrEmpty(file), settings(windows)))

\* launch.json as write_vscode writes it: the fixed dict, whatever was there.
LaunchWritten(file) == JsonDumps(launch)

\* extensions.json as write_extensions_json writes it (for a mapping).
ExtensionsWritten(file) ==
  IF file.kind = "absent" THEN JsonDumps(merged_extensions(<<>>))
  ELSE JsonDumps(merged_extensions(LoadOrEmpty(file)))

\* write_vscode, write_extensions_json included.
WriteVscode ==
  /\ pc = "vscode"
  /\ UNCHANGED <<args, env, dest, repoRoot, venvInfo, ran, run, snap, failed>>
  /\ IF ~IsMapping(fs.settings)
     THEN /\ pc' = "halt"
          /\ status' = "TypeError"
          /\ UNCHANGED <<fs, out>>
     ELSE IF ~IsMapping(fs.extensions)
     THEN /\ pc' = "halt"
          /\ status' = "AttributeError"
          /\ fs' = [fs EXCEPT !.settings = SettingsWritten(@, env.windows),
                              !.launch = LaunchWritten(@)]
          /\ out' = out \cup {"wrote settings.json", "wrote launch.json"}
     ELSE /\ pc' = "launchers"
          /\ fs' = [fs EXCEPT !.settings = SettingsWritten(@, env.windows),
                              !.launch = LaunchWritten(@),
                              !.extensions = ExtensionsWritten(@)]
          /\ out' = out \cup {"wrote settings.json", "wrote launch.json", "wrote extensions.json"}
          /\ UNCHANGED status

\* ------------------------------------------------------- secure launchers
\* The text of a launcher names the repository root.
LauncherWritten(root) == [kind |-> "launcher", root |-> root]

WriteSecureLaunchers ==
  /\ pc = "launchers"
  /\ fs' = [fs EXCEPT !.sh = LauncherWritten(repoRoot), !.ps1 = LauncherWritten(repoRoot)]
  /\ out' = out \cup {"wrote secure launchers", "workspace setup complete"}
  /\ pc' = "done"
  /\ status' = "ok"
  /\ UNCHANGED <<args, env, dest, repoRoot, venvInfo, ran, run, snap, failed>>

\* ------------------------------------------------------------- a next run
\* The tool is started again, with the same arguments on the same machine.
Restart ==
  /\ pc \in {"done", "halt"}
  /\ run < MaxRuns
  /\ run' = run + 1
  /\ snap' = IF run = 1 THEN fs ELSE snap
  /\ pc' = "start"
  /\ status' = "running"
  /\ repoRoot' = NoRoot
  /\ venvInfo' = NoVenvInfo
  /\ ran' = <<>>
  /\ out' = {}
  /\ UNCHANGED <<args, env, dest, fs, failed>>

\* One step of main().
Step ==
  \/ CloneRepo
  \/ DetectRepoRoot
  \/ EnsureSecrets
  \/ CopyInitialConditions
  \/ EnsureGitignore
  \/ CreateVenvAndInstall
  \/ WriteVscode
  \/ WriteSecureLaunchers

Next == Step \/ Restart


\* ------------------------------------------------------- specifications
\* Repositories that differ in their editor configuration files.
VscodeVariants ==
  {[BaseFs EXCEPT !.settings = s, !.launch = l, !.extensions = e] :
     s \in SettingsFiles, l \in LaunchFiles, e \in ExtensionsFiles}

\* Repositories that differ in their data files, .gitignore and launchers.
DataVariants ==
  {[BaseFs EXCEPT !.secrets = x, !.icDefault = d, !.ic = i, !.gitignore = g,
                  !.sh = [kind |-> k, root |-> NoRoot], !.ps1 = [kind |-> k, root |-> NoRoot]] :
     x \in {"absent", "empty", "api_key"}, d \in {"absent", "defaults"},
     i \in {"absent", "defaults", "tuned"}, g \in GitignoreFiles, k \in {"absent", "other"}}

\* Runs of the tool, one after the other, over repositories with every kind
\* of pre-existing managed file; the target interpreter is installed or has
\* to be fetched.
Init ==
  /\ InitControl
  /\ args \in {[repo |-> r, python |-> NoPython] : r \in BOOLEAN}
  /\ env \in {[BaseEnv EXCEPT !.windows = w, !.installed = i] :
                w \in BOOLEAN, i \in {{}, {<<3, 11>>}}}
  /\ dest = IF args.repo THEN "nonempty" ELSE "absent"
  /\ fs \in VscodeVariants \cup DataVariants

Spec == Init /\ [][Next]_vars

\* One run, over every place the tool can be started from: with --repo and
\* any state of the destination, or in a directory tree with .git
\* directories at any levels.
InitRepo ==
  /\ InitControl
  /\ args \in {[repo |-> r, python |-> NoPython] : r \in BOOLEAN}
  /\ env \in {[BaseEnv EXCEPT !.gitAvail = g, !.cwdDepth = d, !.gitDirs = dirs] :
                g \in BOOLEAN, d \in 0..MaxDepth, dirs \in SUBSET (0..MaxDepth)}
  /\ env.gitDirs \subseteq 0..env.cwdDepth
  /\ IF args.repo
     THEN /\ env.cwdDepth = 0
          /\ env.gitDirs = {}
          /\ dest \in {"absent", "empty", "nonempty"}
     ELSE /\ env.gitAvail
          /\ dest = "absent"
  /\ fs \in ClonedFs
  /\ DestHolds(IF args.repo THEN dest ELSE "nonempty", fs)

SpecRepo == InitRepo /\ [][Step]_vars

\* One run, over manifests of every shape.
InitHeavy ==
  /\ InitControl
  /\ args \in {[repo |-> r, python |-> y] :
                 r \in BOOLEAN, y \in {NoPython, [kind |-> "version", ver |-> <<3, 10>>]}}
  /\ env \in {[BaseEnv EXCEPT !.hostVer = h, !.installed = i] :
                h \in {<<3, 10>>, <<3, 12>>}, i \in {{}, Versions}}
  /\ dest = IF args.repo THEN "nonempty" ELSE "absent"
  /\ fs \in {[BaseFs EXCEPT !.req = r] : r \in ReqFiles}

SpecHeavy == InitHeavy /\ [][Step]_vars

\* One run, over every --python request and every set of interpreters on
\* the machine and in .pythonrt.  A name or a path may be found or not; a
\* version text names no file.
PythonRequests ==
  {NoPython} \cup {[kind |-> k, ver |-> <<3, 10>>] : k \in {"version", "name", "path"}}

InitVenv ==
  /\ InitControl
  /\ args \in {[repo |-> r, python |-> y] : r \in BOOLEAN, y \in PythonRequests}
  /\ env \in {[BaseEnv EXCEPT !.windows = w, !.hostVer = h, !.installed = i, !.specFound = f] :
                w \in BOOLEAN, h \in {<<3, 10>>, <<3, 12>>}, i \in SUBSET Versions, f \in BOOLEAN}
  /\ args.python.kind \in {"none", "version"} => ~env.specFound
  /\ dest = IF args.repo THEN "nonempty" ELSE "absent"
  /\ fs \in {[BaseFs EXCEPT !.req = r, !.venv = v, !.pythonrt = p] :
               r \in FewReqFiles,
               v \in {NoVenv, [how |-> "pre", ver |-> <<3, 12>>]},
               p \in {{}} \cup {{x} : x \in Versions}}

SpecVenv == InitVenv /\ [][Step]_vars


\* ================================================================ claims
\* The files the tool manages.
Managed(f) ==
  [secrets |-> f.secrets, ic |-> f.ic, gitignore |-> f.gitignore,
   settings |-> f.settings, launch |-> f.launch, extensions |-> f.extensions,
   sh |-> f.sh, ps1 |-> f.ps1]

RunEnded == pc \in {"done", "halt"}

ComputedKeys == Keys(settings(env.windows))

\* C2, as stated: for every pre-existing settings.json, after write_vscode
\* the file holds every key of the old file that the tool does not compute,
\* with its old value, and every computed key with the computed value.
C2_SettingsMerged_AsClaimed ==
  [][(pc = "vscode" /\ fs.settings.kind # "absent") =>
       /\ fs'.settings.kind = "object"
       /\ \A k \in ComputedKeys :
            /\ k \in Keys(fs'.settings.members)
            /\ Get(fs'.settings.members, k) = Get(settings(env.windows), k)
       /\ \A k \in Keys(fs.settings.members) \ ComputedKeys :
            /\ k \in Keys(fs'.settings.members)
            /\ Get(fs'.settings.members, k) = Get(fs.settings.members, k)]_vars

\* The keys of old that are not in computed are in new with their old value.
KeepsOtherKeys(old, new, computed) ==
  \A k \in Keys(old) \ computed : k \in Keys(new) /\ Get(new, k) = Get(old, k)

\* C3, as stated: each of settings.json, launch.json and extensions.json
\* keeps, through write_vscode, every top-level key of its old version that
\* the tool does not compute, with its old value.
C3_AllThreeMerged_AsClaimed ==
  [][pc = "vscode" =>
       /\ KeepsOtherKeys(fs.settings.members, fs'.settings.members, ComputedKeys)
       /\ KeepsOtherKeys(fs.launch.members, fs'.launch.members, Keys(launch))
       /\ KeepsOtherKeys(fs.extensions.members, fs'.extensions.members, Keys(payload))]_vars

\* C3, amended: of the three files only settings.json is merged key by key:
\* through write_vscode it keeps every top-level key of its old version that
\* the tool does not compute, with its old value.  launch.json is not merged:
\* whenever write_vscode writes it (it does unless the merge of settings.json
\* raised) it holds exactly the tool's "version" and "configurations".
\* extensions.json is merged only inside its two lists: whenever it is
\* written it holds exactly the keys "recommendations" and
\* "unwantedRecommendations", each the union of the old list and the tool's
\* entries, and every other old top-level key is gone.
C3_OnlySettingsKeepsKeys ==
  [][pc = "vscode" =>
       /\ KeepsOtherKeys(fs.settings.members, fs'.settings.members, ComputedKeys)
       /\ status' # "TypeError" =>
            /\ fs'.launch.kind = "object"
            /\ fs'.launch.members = launch
       /\ pc' = "launchers" =>
            /\ fs'.extensions.kind = "object"
            /\ Keys(fs'.extensions.members) = Keys(payload)
            /\ \A k \in Keys(payload) :
                 Range(Get(fs'.extensions.members, k))
                   = Range(GetList(JsonLoads(fs.extensions.members), k)) \cup Range(Get(payload, k))]_vars

\* write_vscode has written all three files over a settings.json with a key
\* of its own (kept), a launch.json with a key of its own (gone) and an
\* extensions.json with a key of its own (gone) and a recommendation of its
\* own (kept).
C3_Witness ==
  /\ pc = "launchers"
  /\ run = 1
  /\ "editor.fontSize" \in Keys(fs.settings.members)
  /\ fs.launch.members = launch
  /\ "customNote" \notin Keys(fs.extensions.members)
  /\ "esbenp.prettier-vscode" \in Range(GetList(fs.extensions.members, "recommendations"))


\* ---- C4, C5: the target version without --python
\* The characters a package name is made of.
NameChars == Range(UpperCase) \cup Range(LowerCase)
             \cup {"0","1","2","3","4","5","6","7","8","9","-","_","."}

\* The package name a requirement line starts with: its longest leading run
\* of name characters, whatever follows.
PackageName(line) ==
  LET l == Strip(line)
      stops == {i \in 1..Len(l) : l[i] \notin NameChars}
  IN  IF stops = {} THEN l
      ELSE SubSeq(l, 1, (CHOOSE i \in stops : \A j \in stops : i <= j) - 1)

\* The manifest has a non-comment line whose package name is, ignoring case
\* and reading "_" as "-", in the heavy set.
NamesHeavy(req) ==
  /\ req.kind = "text"
  /\ \E i \in 1..Len(req.lines) :
       /\ Strip(req.lines[i]) # <<>>
       /\ ~StartsWith(Strip(req.lines[i]), <<"#">>)
       /\ ReplaceChar(Lower(PackageName(req.lines[i])), "_", "-") \in HEAVY_PKGS

\* create_venv_and_install has chosen its target in this run.
TargetChosen == venvInfo.target # <<>>

\* C4, as stated: with no --python and a manifest that names a heavy
\* package, whatever follows the name, the target version is 3.11.
C4_HeavyTargetsPreferred_AsClaimed ==
  (TargetChosen /\ args.python = NoPython /\ NamesHeavy(fs.req))
    => venvInfo.target = <<3, 11>>

\* C5: with no --python and a manifest that is absent, unreadable or names
\* no heavy package, the target is the major.minor version of the
\* interpreter running the tool; that is the version looked up on the
\* machine, the version of the installed interpreter chosen, and the
\* major.minor version of the portable runtime asked for.
C5_LightTargetsHost ==
  (TargetChosen /\ args.python = NoPython /\ ~NamesHeavy(fs.req)) =>
    /\ venvInfo.target = env.hostVer
    /\ venvInfo.lookup = env.hostVer
    /\ venvInfo.chosen.how # "none" => venvInfo.chosen.ver = env.hostVer
    /\ venvInfo.portable # <<>> => SubSeq(venvInfo.portable, 1, 2) = env.hostVer
    /\ fs.venv.how \in {"which", "py", "portable"} => fs.venv.ver = env.hostVer

\* With no --python, a manifest whose only package has a name that begins
\* with a heavy name (torchvision) and no interpreter on the machine, a
\* portable runtime of the host's version has been fetched and the venv
\* created from it.
C5_Witness ==
  /\ TargetChosen
  /\ args.python = NoPython
  /\ fs.req.kind = "text"
  /\ Len(fs.req.lines) = 1
  /\ StartsWith(fs.req.lines[1], torch)
  /\ ~NamesHeavy(fs.req)
  /\ venvInfo.portable = env.hostVer \o <<9>>
  /\ fs.venv = [how |-> "portable", ver |-> env.hostVer]

\* ---- C6: --python is honoured
\* The venv was created by this tool, with the executable --python names or
\* with an installed or portable interpreter of the version it names.
MatchesRequest(venv, spec) ==
  /\ venv.how \in {"spec", "which", "py", "portable"}
  /\ venv.ver = spec.ver

\* C6, as stated: when --python is given and create_venv_and_install has
\* returned, the venv at .venv was created by an interpreter matching the
\* request.
C6_RequestHonoured_AsClaimed ==
  (pc \in {"vscode", "launchers", "done"} /\ args.python # NoPython)
    => MatchesRequest(fs.venv, args.python)

\* ---- C7: clone_repo over a destination that is not empty
\* C7, as stated: clone_repo with a destination that exists and is not
\* empty runs no clone, leaves the destination as it is, reports the skip
\* and returns the destination, with or without git on the machine.
C7_NonEmptyDestKept_AsClaimed ==
  [][(pc = "start" /\ args.repo /\ dest = "nonempty") =>
       /\ "git clone" \notin Range(ran')
       /\ fs' = fs
       /\ dest' = dest
       /\ "skipping clone" \in out'
       /\ repoRoot' = [kind |-> "dest", level |-> 0]]_vars

\* C7, amended: clone_repo with a destination that exists and is not empty
\* runs no clone and leaves the destination as it is; when git is on the
\* machine it reports the skip and returns the destination as the working
\* repository; when git is not, it ends the run with the fatal "git not
\* found" exit before looking at the destination: no skip is reported and
\* nothing is returned.
C7_NonEmptyDestKept ==
  [][(pc = "start" /\ args.repo /\ dest = "nonempty") =>
       /\ "git clone" \notin Range(ran')
       /\ fs' = fs
       /\ dest' = dest
       /\ IF env.gitAvail
          THEN /\ "skipping clone" \in out'
               /\ repoRoot' = [kind |-> "dest", level |-> 0]
               /\ pc' = "secrets"
               /\ status' = "running"
          ELSE /\ "skipping clone" \notin out'
               /\ repoRoot' = NoRoot
               /\ pc' = "halt"
               /\ status' = "exit: git not found"]_vars

\* clone_repo has skipped the clone of a destination that holds files and
\* returned it.
C7_Witness ==
  /\ args.repo
  /\ pc = "secrets"
  /\ dest = "nonempty"
  /\ fs = BaseFs
  /\ "skipping clone" \in out
  /\ ran = <<"git --version">>
  /\ repoRoot = [kind |-> "dest", level |-> 0]

\* ---- C8: the repository found without --repo
\* The nearest level among S that holds a .git directory.
Nearest(S) == CHOOSE p \in S : \A q \in S : p <= q

\* C8, as stated: without --repo the tool works in the nearest of the cwd
\* and all its ancestors that holds a .git directory, and exits with "not
\* inside a Git repository", no file written, exactly when none does.
C8_NearestRepoFound_AsClaimed ==
  [][(pc = "start" /\ ~args.repo) =>
       /\ fs' = fs
       /\ IF env.gitDirs = {}
          THEN pc' = "halt" /\ status' = "exit: not inside a Git repository"
          ELSE /\ pc' = "secrets"
               /\ repoRoot' = [kind |-> "cwd", level |-> Nearest(env.gitDirs)]]_vars

\* The levels detect_repo_root looks at: the cwd and its first five
\* ancestors.
Examined == 0..(WalkLimit - 1)

\* C8, amended: without --repo the tool works in the nearest directory that
\* holds a .git directory among the cwd and its first five ancestors; it
\* exits with "not inside a Git repository", no file written, exactly when
\* none of these six directories holds one, whatever the directories further
\* up hold.
C8_NearestRepoFound ==
  [][(pc = "start" /\ ~args.repo) =>
       /\ fs' = fs
       /\ IF env.gitDirs \cap Examined = {}
          THEN pc' = "halt" /\ status' = "exit: not inside a Git repository"
          ELSE /\ pc' = "secrets"
               /\ status' = "running"
               /\ repoRoot' = [kind |-> "cwd", level |-> Nearest(env.gitDirs \cap Examined)]]_vars

\* The repository was found at the fifth ancestor of the cwd, the last
\* directory examined, with another .git directory further up.
C8_Witness ==
  /\ ~args.repo
  /\ pc = "secrets"
  /\ env.gitDirs = {WalkLimit - 1, WalkLimit}
  /\ repoRoot = [kind |-> "cwd", level |-> WalkLimit - 1]

\* ---- C9: the data files are created only when absent
\* C9: ensure_secrets leaves an existing secrets.toml as it is;
\* copy_initial_conditions leaves an existing initial_conditions.yaml as it
\* is; and without initial_conditions_default.yaml it raises nothing, creates
\* no initial_conditions.yaml, changes no file and reports the skipped copy.
C9_DataFilesCreateIfAbsent ==
  [][/\ (pc = "secrets" /\ fs.secrets # "absent") => fs'.secrets = fs.secrets
     /\ (pc = "copy" /\ fs.ic # "absent") => fs'.ic = fs.ic
     /\ (pc = "copy" /\ fs.icDefault = "absent") =>
          /\ fs' = fs
          /\ status' = "running"
          /\ pc' = "gitignore"
          /\ "default not found; skipping copy" \in out'
          /\ "copied default" \notin out']_vars

\* Both steps have run over a secrets.toml with content, a default file and
\* an initial_conditions.yaml that differs from it: both files are as they
\* were.
C9_Witness ==
  /\ pc = "gitignore"
  /\ run = 1
  /\ fs.secrets = "api_key"
  /\ fs.icDefault = "defaults"
  /\ fs.ic = "tuned"
  /\ "secrets.toml already exists" \in out
  /\ "initial_conditions.yaml already exists" \in out

\* ---- C10: when the portable interpreter is downloaded
\* C10: create_venv_and_install downloads the archive only when .venv does
\* not exist, neither the --python text nor the target version was found on
\* the machine, and .pythonrt/<major.minor> holds no extracted executable;
\* when it holds one (and the first two conditions are met) nothing is
\* downloaded or extracted and the venv command runs with it; and when the
\* extraction leaves no executable, RuntimeError ends the run with no venv
\* command run and no .venv created.
C10_DownloadOnlyWhenNeeded ==
  [][pc = "venv" =>
       LET target == venvInfo'.target
           found == \/ (args.python.kind # "none" /\ env.specFound)
                    \/ target \in env.installed
           extracted == SubSeq(target, 1, 2) \in fs.pythonrt
           downloaded == "download" \in Range(ran')
       IN  /\ downloaded => (fs.venv.how = "none" /\ ~found /\ ~extracted)
           /\ (fs.venv.how = "none" /\ ~found /\ extracted) =>
                /\ ~downloaded
                /\ "extract" \notin Range(ran')
                /\ "venv" \in Range(ran')
                /\ fs'.venv.how \in {"portable", "partial", "none"}
                /\ fs'.pythonrt = fs.pythonrt
           /\ status' = "RuntimeError" =>
                /\ downloaded
                /\ "venv" \notin Range(ran')
                /\ fs'.venv.how = "none"
                /\ SubSeq(target, 1, 2) \notin fs'.pythonrt]_vars

\* An archive was downloaded and extracted, and the venv created from the
\* portable interpreter.
C10_Witness ==
  /\ pc = "vscode"
  /\ ran = <<"download", "extract", "venv", "pip upgrade", "pip install">>
  /\ fs.venv.how = "portable"
  /\ fs.venv.ver \in fs.pythonrt
  /\ venvInfo.chosen = NoInterpreter


\* ---------------------------------------------------------------- C11
\* The steps of main(), by the value of pc at which each begins, and the end.
StepOrder == <<"start", "secrets", "copy", "gitignore", "venv", "vscode", "launchers", "done">>

\* The external commands of a run in the order the code issues them: the
\* venv command, the toolchain upgrade and the manifest install belong to
\* the virtual-environment step.
CommandOrder == <<"git --version", "git clone", "py -V", "download", "extract",
                  "venv", "pip upgrade", "pip install">>

\* The commands whose exit status ends the run.
CheckedCommands == {"git clone", "venv", "pip upgrade", "pip install"}

Pos(order, x) == CHOOSE k \in 1..Len(order) : order[k] = x

\* log lists members of order, each at most once, in the order of order.
InOrder(log, order) ==
  /\ Range(log) \subseteq Range(order)
  /\ \A i, j \in 1..Len(log) : i < j => Pos(order, log[i]) < Pos(order, log[j])

\* What write_vscode and write_secure_launchers print.
EditorMessages == {"wrote settings.json", "wrote launch.json", "wrote extensions.json"}
LauncherMessages == {"wrote secure launchers", "workspace setup complete"}

\* What the steps after the repository is resolved print.
LaterMessages ==
  {"working in repo", "created secrets.toml", "secrets.toml already exists",
   "default not found; skipping copy", "copied default",
   "initial_conditions.yaml already exists", "ensured .gitignore",
   "--python specified", "fetching a portable runtime", "created virtual environment",
   "virtual environment already exists", "no requirements.txt", "installed requirements"}
  \cup EditorMessages \cup LauncherMessages

\* The process ended with a non-zero exit status: sys.exit with a message,
\* or an exception that nothing catches.
NonZeroExit(s) == s \notin {"running", "ok"}

\* C11: in a run of main() every step is the one that follows the step
\* before it in the fixed order resolve repository, secrets file,
\* configuration copy, .gitignore, virtual environment (venv command,
\* toolchain upgrade, manifest install), editor configuration, launcher
\* scripts, or it ends the run; a run that has ended takes no step.  When
\* git clone, the venv command, the pip toolchain upgrade or the pip
\* manifest install exits non-zero, or git is missing and --repo is given,
\* the run ends there with a non-zero exit: the failing command is the last
\* command of the run, after a missing git or a failed clone no later step
\* has printed or written anything, and after a failed venv, upgrade or
\* install no .vscode file and no launcher script exists.  The manifest
\* install is attempted only after a toolchain upgrade that succeeded and
\* with .venv in place.
C11_FixedOrderFailFast ==
  [][/\ pc \notin {"halt", "done"}
     /\ \/ pc' = "halt" /\ NonZeroExit(status')
        \/ /\ Pos(StepOrder, pc') = Pos(StepOrder, pc) + 1
           /\ status' = IF pc' = "done" THEN "ok" ELSE "running"
     /\ InOrder(ran', CommandOrder)
     /\ (args.repo /\ ~env.gitAvail) =>
          /\ pc' = "halt"
          /\ status' = "exit: git not found"
          /\ ran' = <<"git --version">>
          /\ out' \cap LaterMessages = {}
          /\ fs' = fs
     /\ failed'.subprocess =>
          /\ pc' = "halt"
          /\ status' = "CalledProcessError"
          /\ failed'.at \in CheckedCommands
          /\ ran' # <<>>
          /\ ran'[Len(ran')] = failed'.at
          /\ out' \cap (EditorMessages \cup LauncherMessages) = {}
          /\ fs'.settings = NoFile /\ fs'.launch = NoFile /\ fs'.extensions = NoFile
          /\ fs'.sh = NoLauncher /\ fs'.ps1 = NoLauncher
          /\ failed'.at = "git clone" => (out' \cap LaterMessages = {} /\ fs' = fs)
     /\ "pip install" \in Range(ran') =>
          /\ "pip upgrade" \in Range(ran')
          /\ failed'.at \notin {"venv", "pip upgrade"}
          /\ VenvExists(fs')
          /\ fs'.venv.how # "partial"
     /\ "pip upgrade" \in Range(ran') => (VenvExists(fs') /\ failed'.at # "venv")
    ]_vars

\* A run cloned the repository, went through the file steps, created the
\* venv and upgraded the toolchain, and ended at a manifest install that
\* exited non-zero.
C11_Witness ==
  /\ pc = "halt"
  /\ status = "CalledProcessError"
  /\ failed.at = "pip install"
  /\ "git clone" \in Range(ran)
  /\ "pip upgrade" \in Range(ran)
  /\ fs.secrets # "absent"
  /\ fs.gitignore # NoGitignore


====
